---- MODULE Spec2Model ----
(***************************************************************************)
(* Model of the dataagent API: the two-executor workflow (chat <-> NL2SQL) *)
(* with its shared-state thread key, the SSE generators of the chat        *)
(* router, the SQL-safety check of execute_sql, the confidence gate of     *)
(* search_cached_queries and the thread endpoints.                         *)
(***************************************************************************)
EXTENDS Integers, Sequences, FiniteSets, TLC

(***************************************************************************)
(* Bounds of the model.                                                    *)
(***************************************************************************)
\* chat requests served one after the other by the single workflow instance
MaxRequests == 2
\* cap on executor handler invocations in one run (the real run needs 3)
MaxHandlerCalls == 4
\* threads that exist on the agent service before the API starts
InitialThreads == 1

(***************************************************************************)
(* Values.                                                                 *)
(***************************************************************************)
\* Python None / a thread object without service_thread_id (falsy)
NoThread == 0
\* error: str | None = None
NoError == "None"
Users == {"alice", "bob"}
\* request.state.user_id absent, or metadata without user_id (falsy)
NoUser == ""
\* exception classes a step may raise; the first three are the ones the
\* handlers name in their except clauses
ExcClasses == {"ValueError", "RuntimeError", "OSError", "TypeError", "KeyError"}
ExcMessages == {"boom"}
Exceptions == [cls : ExcClasses, msg : ExcMessages]
NoException == [cls |-> "none", msg |-> ""]
\* str(e)
Str(e) == e.msg

\* except (ValueError, RuntimeError, OSError) in handle_question
NL2SQLCaught == {"ValueError", "RuntimeError", "OSError"}
\* except (ValueError, RuntimeError, OSError) in generate_streaming_response
AgentStreamCaught == {"ValueError", "RuntimeError", "OSError"}
\* except (ValueError, RuntimeError, OSError, TypeError) in
\* generate_workflow_streaming_response
WorkflowStreamCaught == {"ValueError", "RuntimeError", "OSError", "TypeError"}
Generators == {"agent", "workflow"}
GeneratorCaught(gen) ==
    IF gen = "agent" THEN AgentStreamCaught ELSE WorkflowStreamCaught

\* chunk_size = 50
ChunkSize == 50
\* lengths of the rendered text (final_text is never empty: the fallback
\* rendering always produces text)
TextLens == {1, ChunkSize, ChunkSize + 1}
\* range(0, len(output_text), chunk_size)
Chunks(len) == (len + ChunkSize - 1) \div ChunkSize

VARIABLES
    clearsSharedState, \* whether the workflow runtime empties shared state at run start
    sharedState,       \* value under FOUNDRY_THREAD_ID_KEY (NoThread: key absent)
    threadCount,       \* threads 1..threadCount exist on the agent service
    requests,          \* chat requests started so far
    req,               \* the request being served
    phase,             \* "idle" | "running" | "failed"
    inbox,             \* inbox[executor]: messages delivered and not yet handled
    raised,            \* exception that left a handler and ended the run
    outputs,           \* outputs yielded by the run, not yet read by the generator
    events,            \* SSE events the generator has emitted for this request
    stream,            \* "none" | "open" | "done" | "aborted"
    foundry_thread_id, \* the generator's local foundry_thread_id
    output_received,   \* the workflow generator's local output_received
    trace,             \* steps of the current run, in order
    nlRanOn,           \* thread the NL2SQL agent ran on in this run
    chatRanOn,         \* thread the chat agent ran on in this run
    created,           \* threads the service created during this run
    handlerCalls,      \* handler invocations in this run
    agentRaised,       \* some agent.run call of this run raised
    nlFailure,         \* exception raised inside handle_question in this run
    nlSent,            \* responses handle_question sent in this run
    yielded,           \* outputs yield_output produced in this run
    threadOwner        \* threadOwner[t]: the user_id metadata of thread t

wfVars == <<clearsSharedState, sharedState, threadCount, requests, req, phase,
            inbox, raised, outputs, events, stream, foundry_thread_id,
            output_received, trace, nlRanOn, chatRanOn, created, handlerCalls,
            agentRaised, nlFailure, nlSent, yielded, threadOwner>>

VARIABLES
    sqlQuery,          \* execute_sql: the query argument (a sequence of characters)
    sqlPc,             \* "idle" | "called" | "returned" | "raised"
    sqlResult,         \* the dictionary execute_sql returned
    sqlConnected,      \* aioodbc.connect was called
    sqlExecuted        \* cursor.execute(query) was called

sqlVars == <<sqlQuery, sqlPc, sqlResult, sqlConnected, sqlExecuted>>

VARIABLES
    searchHits,        \* what the search service returns for the question
    searchEnv,         \* how the search environment behaves
    searchPc,          \* "idle" | "called" | "returned" | "raised"
    searchResult       \* the dictionary search_cached_queries returned

searchVars == <<searchHits, searchEnv, searchPc, searchResult>>

VARIABLES
    thStore,           \* threads on the agent service: existence and metadata
    thReqs,            \* the thread-endpoint requests, in arrival order
    thStarted,         \* how many of them have arrived
    thMessages,        \* thMessages[t]: the messages of thread t as messages.list yields them
    thListEnv          \* "ok", or the exception class messages.list raises

thVars == <<thStore, thReqs, thStarted, thMessages, thListEnv>>

VARIABLES
    agMessages,        \* response.messages of the NL2SQL agent's run
    agPc,              \* "idle" | "ran" | "sent"
    agResponse         \* the NL2SQLResponse handle_question sends

parseVars == <<agMessages, agPc, agResponse>>

vars == <<wfVars, sqlVars, searchVars, thVars, parseVars>>

(***************************************************************************)
(* The workflow graph and message routing.                                 *)
(***************************************************************************)
Executors == {"chat", "nl2sql"}

EdgesSelfLoop == {<<"chat", "chat">>, <<"nl2sql", "chat">>}
\* .add_edge(chat_executor, nl2sql_executor).add_edge(nl2sql_executor, chat_executor)
Edges == {<<"chat", "nl2sql">>, <<"nl2sql", "chat">>}

\* ctx.send_message(msg) from executor `from`: one copy to every edge target
Deliver(box, from, msg) ==
    [ex \in Executors |->
        IF <<from, ex>> \in Edges THEN Append(box[ex], msg) ELSE box[ex]]

EmptyInboxes == [ex \in Executors |-> <<>>]
RunIdle == phase = "running" /\ inbox = EmptyInboxes

(***************************************************************************)
(* Thread handling shared by both executors.                               *)
(***************************************************************************)
GetOrCreateThreadAlwaysNew(shared) == NoThread
\* _get_or_create_thread: the thread of the stored ID, else a new thread
\* without ID
GetOrCreateThread(shared) == IF shared # NoThread THEN shared ELSE NoThread

\* agent.run(..., thread=thread): the service assigns the ID on first run
AgentRun(thread, count) == IF thread # NoThread THEN thread ELSE count + 1

\* _store_thread_id: store only when the thread has an ID and none is stored
StoreThreadId(shared, thread) ==
    IF thread # NoThread
    THEN IF shared # NoThread THEN shared ELSE thread
    ELSE shared

(***************************************************************************)
(* Messages and outcomes.                                                  *)
(***************************************************************************)
UserMessage == [kind |-> "user"]
QuestionMessage == [kind |-> "question"]
ResponseMessage(r) == [kind |-> "response", body |-> r]

\* what _parse_agent_response can return after a run of the NL2SQL agent:
\* a query that ran, a query whose execution failed, or no query at all
ParseOutcomes == {[sql_query |-> "q", error |-> NoError],
                  [sql_query |-> "q", error |-> "tool error"],
                  [sql_query |-> "", error |-> NoError]}

\* NL2SQLResponse(sql_query="", error=str(e))
ErrorResponse(e) == [sql_query |-> "", error |-> Str(e)]

\* outcomes of one handle_question call: the agent run raises, the response
\* model rejects the parsed values (a pydantic ValidationError is a
\* ValueError), or everything returns
NlOutcomes ==
    {[failAt |-> "none", exc |-> NoException, parsed |-> p] : p \in ParseOutcomes}
    \cup {[failAt |-> "run", exc |-> e, parsed |-> ErrorResponse(e)] : e \in Exceptions}
    \cup {[failAt |-> "parse", exc |-> e, parsed |-> ErrorResponse(e)] :
            e \in {x \in Exceptions : x.cls = "ValueError"}}

\* outcomes of one handle_nl2sql_response call
ChatOutcomes ==
    {[failAt |-> "none", exc |-> NoException, len |-> n] : n \in TextLens}
    \cup {[failAt |-> "run", exc |-> e, len |-> 1] : e \in Exceptions}

ContentEvent == [done |-> FALSE, kind |-> "content", thread_id |-> NoThread, error |-> NoError]
DoneEvent(tid) == [done |-> TRUE, kind |-> "done", thread_id |-> tid, error |-> NoError]
ErrorEvent(e) == [done |-> TRUE, kind |-> "error", thread_id |-> NoThread, error |-> Str(e)]
ChunkEvents(len) == [i \in 1..Chunks(len) |-> ContentEvent]

(***************************************************************************)
(* Initial state: the API has started, the workflow instance exists.       *)
(***************************************************************************)
NoRequest == [thread_id |-> NoThread, generator |-> "agent", user_id |-> NoUser]

\* the threads that exist before the API starts belong to one user
InitialOwners == [t \in 1..InitialThreads |-> "alice"]

\* thread_metadata: the caller's user_id, for requests without thread_id only
NewThreadOwner(request) ==
    IF request.thread_id = NoThread THEN request.user_id ELSE NoUser

WfInit ==
    /\ clearsSharedState \in BOOLEAN
    /\ sharedState = NoThread
    /\ threadCount = InitialThreads
    /\ requests = 0
    /\ req = NoRequest
    /\ phase = "idle"
    /\ inbox = EmptyInboxes
    /\ raised = NoException
    /\ outputs = <<>>
    /\ events = <<>>
    /\ stream = "none"
    /\ foundry_thread_id = NoThread
    /\ output_received = FALSE
    /\ trace = <<>>
    /\ nlRanOn = NoThread
    /\ chatRanOn = NoThread
    /\ created = 0
    /\ handlerCalls = 0
    /\ agentRaised = FALSE
    /\ nlFailure = NoException
    /\ nlSent = <<>>
    /\ yielded = 0
    /\ threadOwner = InitialOwners

(***************************************************************************)
(* chat_stream: a request arrives, the generator starts the run.           *)
(***************************************************************************)
ChatStream(tid, gen, user) ==
    /\ phase = "idle"
    /\ requests < MaxRequests
    /\ requests' = requests + 1
    /\ req' = [thread_id |-> tid, generator |-> gen, user_id |-> user]
    /\ phase' = "running"
    /\ sharedState' = IF clearsSharedState THEN NoThread ELSE sharedState
    /\ inbox' = [EmptyInboxes EXCEPT !["chat"] = <<UserMessage>>]
    /\ raised' = NoException
    /\ outputs' = <<>>
    /\ events' = <<>>
    /\ stream' = "open"
    /\ foundry_thread_id' = tid
    /\ output_received' = FALSE
    /\ trace' = <<>>
    /\ nlRanOn' = NoThread
    /\ chatRanOn' = NoThread
    /\ created' = 0
    /\ handlerCalls' = 0
    /\ agentRaised' = FALSE
    /\ nlFailure' = NoException
    /\ nlSent' = <<>>
    /\ yielded' = 0
    /\ UNCHANGED <<sqlVars, searchVars, thVars, parseVars>>
    /\ UNCHANGED <<clearsSharedState, threadCount, threadOwner>>

(***************************************************************************)
(* ChatAgentExecutor.handle_user_messages / handle_chat_message.           *)
(***************************************************************************)
HandleUserMessages ==
    /\ phase = "running"
    /\ handlerCalls < MaxHandlerCalls
    /\ inbox["chat"] # <<>>
    /\ Head(inbox["chat"]).kind = "user"
    /\ inbox' = Deliver([inbox EXCEPT !["chat"] = Tail(@)], "chat", QuestionMessage)
    /\ trace' = Append(trace, "forward")
    /\ handlerCalls' = handlerCalls + 1
    /\ UNCHANGED <<sqlVars, searchVars, thVars, parseVars>>
    /\ UNCHANGED <<clearsSharedState, sharedState, threadCount, requests, req,
                   phase, raised, outputs, events, stream, foundry_thread_id,
                   output_received, nlRanOn, chatRanOn, created, agentRaised,
                   nlFailure, nlSent, yielded, threadOwner>>

(***************************************************************************)
(* NL2SQLAgentExecutor.handle_question.                                    *)
(***************************************************************************)
HandleQuestion(o) ==
    /\ phase = "running"
    /\ handlerCalls < MaxHandlerCalls
    /\ inbox["nl2sql"] # <<>>
    /\ Head(inbox["nl2sql"]).kind = "question"
    /\ LET thread0 == GetOrCreateThread(sharedState)
           ran == o.failAt # "run"
           thread1 == IF ran THEN AgentRun(thread0, threadCount) ELSE thread0
           failed == o.failAt # "none"
           caught == o.exc.cls \in NL2SQLCaught
           response == IF failed THEN ErrorResponse(o.exc) ELSE o.parsed
           rest == [inbox EXCEPT !["nl2sql"] = Tail(@)]
       IN  /\ sharedState' = IF ran THEN StoreThreadId(sharedState, thread1)
                                    ELSE sharedState
           /\ threadCount' = IF thread1 > threadCount THEN thread1 ELSE threadCount
           /\ created' = IF thread1 > threadCount THEN created + 1 ELSE created
           /\ threadOwner' = IF thread1 > threadCount
                             THEN Append(threadOwner, NewThreadOwner(req))
                             ELSE threadOwner
           /\ nlRanOn' = IF ran THEN thread1 ELSE nlRanOn
           /\ agentRaised' = (agentRaised \/ ~ran)
           /\ nlFailure' = IF failed THEN o.exc ELSE nlFailure
           /\ IF failed /\ ~caught
              THEN /\ phase' = "failed"
                   /\ raised' = o.exc
                   /\ inbox' = rest
                   /\ nlSent' = nlSent
                   /\ trace' = Append(trace, "nl_handled")
              ELSE /\ phase' = phase
                   /\ raised' = raised
                   /\ inbox' = Deliver(rest, "nl2sql", ResponseMessage(response))
                   /\ nlSent' = Append(nlSent, response)
                   /\ trace' = trace \o <<"nl_handled", "nl_sent">>
    /\ handlerCalls' = handlerCalls + 1
    /\ UNCHANGED <<sqlVars, searchVars, thVars, parseVars>>
    /\ UNCHANGED <<clearsSharedState, requests, req, outputs, events, stream,
                   foundry_thread_id, output_received, chatRanOn, yielded>>

(***************************************************************************)
(* ChatAgentExecutor.handle_nl2sql_response.                               *)
(***************************************************************************)
\* messages the rendering handler sends on (ctx: WorkflowContext[Never, str])
RenderSendsAgain == <<QuestionMessage>>
RenderSends == <<>>

HandleNl2sqlResponse(o) ==
    /\ phase = "running"
    /\ handlerCalls < MaxHandlerCalls
    /\ inbox["chat"] # <<>>
    /\ Head(inbox["chat"]).kind \in {"question", "response"}
    /\ LET msg == Head(inbox["chat"])
           \* NL2SQLResponse.model_validate_json(response_json)
           valid == msg.kind = "response"
           thread0 == GetOrCreateThread(sharedState)
           ran == valid /\ o.failAt # "run"
           thread1 == IF ran THEN AgentRun(thread0, threadCount) ELSE thread0
           shared1 == IF ran THEN StoreThreadId(sharedState, thread1) ELSE sharedState
           \* thread.service_thread_id, else the shared-state value
           fid == IF thread1 # NoThread THEN thread1 ELSE shared1
           rest == [inbox EXCEPT !["chat"] = Tail(@)]
       IN  /\ sharedState' = shared1
           /\ threadCount' = IF thread1 > threadCount THEN thread1 ELSE threadCount
           /\ created' = IF thread1 > threadCount THEN created + 1 ELSE created
           /\ threadOwner' = IF thread1 > threadCount
                             THEN Append(threadOwner, NewThreadOwner(req))
                             ELSE threadOwner
           /\ chatRanOn' = IF ran THEN thread1 ELSE chatRanOn
           /\ agentRaised' = (agentRaised \/ (valid /\ ~ran))
           /\ IF ran
              THEN /\ phase' = phase
                   /\ raised' = raised
                   /\ outputs' = Append(outputs, [text_len |-> o.len, thread_id |-> fid])
                   /\ yielded' = yielded + 1
                   /\ trace' = trace \o <<"render", "yield">>
                   /\ inbox' = IF RenderSends = <<>> THEN rest
                               ELSE Deliver(rest, "chat", RenderSends[1])
              ELSE /\ phase' = "failed"
                   /\ raised' = IF valid THEN o.exc
                                ELSE [cls |-> "ValueError", msg |-> "invalid json"]
                   /\ outputs' = outputs
                   /\ yielded' = yielded
                   /\ trace' = Append(trace, "render")
                   /\ inbox' = rest
    /\ handlerCalls' = handlerCalls + 1
    /\ UNCHANGED <<sqlVars, searchVars, thVars, parseVars>>
    /\ UNCHANGED <<clearsSharedState, requests, req, events, stream,
                   foundry_thread_id, output_received, nlRanOn, nlFailure, nlSent>>

(***************************************************************************)
(* generate_streaming_response / generate_workflow_streaming_response.     *)
(***************************************************************************)
\* parsed.get("thread_id") or foundry_thread_id
ExtractThreadIdKeepIncoming(out_thread_id, current) == current
ExtractThreadId(out_thread_id, current) ==
    IF out_thread_id # NoThread THEN out_thread_id ELSE current

\* one update of the run carrying the executor's JSON output
StreamOutput ==
    /\ stream = "open"
    /\ outputs # <<>>
    /\ LET out == Head(outputs)
       IN  /\ foundry_thread_id' = ExtractThreadId(out.thread_id, foundry_thread_id)
           /\ events' = events \o ChunkEvents(out.text_len)
    /\ outputs' = Tail(outputs)
    /\ output_received' = (req.generator = "workflow")
    /\ UNCHANGED <<sqlVars, searchVars, thVars, parseVars>>
    /\ UNCHANGED <<clearsSharedState, sharedState, threadCount, requests, req,
                   phase, stream, inbox, raised, trace, nlRanOn, chatRanOn, created,
                   handlerCalls, agentRaised, nlFailure, nlSent, yielded,
                   threadOwner>>

\* the run has ended normally: the done signal
StreamDone ==
    /\ stream = "open"
    /\ outputs = <<>>
    /\ RunIdle
    /\ events' = events
                \o (IF req.generator = "workflow" /\ ~output_received
                    THEN <<ContentEvent>> ELSE <<>>)
                \o <<DoneEvent(foundry_thread_id)>>
    /\ stream' = "done"
    /\ phase' = "idle"
    /\ UNCHANGED <<sqlVars, searchVars, thVars, parseVars>>
    /\ UNCHANGED <<clearsSharedState, sharedState, threadCount, requests, req,
                   inbox, raised, outputs, foundry_thread_id, output_received,
                   trace, nlRanOn, chatRanOn, created, handlerCalls, agentRaised,
                   nlFailure, nlSent, yielded, threadOwner>>

\* the run has raised: the except clause of the generator, or none
StreamError ==
    /\ stream = "open"
    /\ outputs = <<>>
    /\ phase = "failed"
    /\ IF raised.cls \in GeneratorCaught(req.generator)
       THEN /\ events' = Append(events, ErrorEvent(raised))
            /\ stream' = "done"
       ELSE /\ events' = events
            /\ stream' = "aborted"
    /\ phase' = "idle"
    /\ UNCHANGED <<sqlVars, searchVars, thVars, parseVars>>
    /\ UNCHANGED <<clearsSharedState, sharedState, threadCount, requests, req,
                   inbox, raised, outputs, foundry_thread_id, output_received,
                   trace, nlRanOn, chatRanOn, created, handlerCalls, agentRaised,
                   nlFailure, nlSent, yielded, threadOwner>>

(***************************************************************************)
(* execute_sql: text helpers.  Text is a sequence of one-character         *)
(* strings, so that strip, upper, startswith and `in` are computed.        *)
(***************************************************************************)
\* fragments per query
MaxFragments == 3
\* rows a successful query returns
MaxRows == 2

LowerChars == <<"a", "b", "c", "d", "e", "f", "g", "h", "i", "j", "k", "l", "m", "n", "o", "p", "q", "r", "s", "t", "u", "v", "w", "x", "y", "z">>
UpperChars == <<"A", "B", "C", "D", "E", "F", "G", "H", "I", "J", "K", "L", "M", "N", "O", "P", "Q", "R", "S", "T", "U", "V", "W", "X", "Y", "Z">>
\* str.upper() on one character
UpperChar(c) ==
    IF \E i \in 1..Len(LowerChars) : LowerChars[i] = c
    THEN UpperChars[CHOOSE i \in 1..Len(LowerChars) : LowerChars[i] = c]
    ELSE c
Upper(s) == [i \in 1..Len(s) |-> UpperChar(s[i])]

IsSpace(c) == c \in {" ", "\t", "\n", "\r"}
\* str.strip()
Strip(s) ==
    LET keep == {i \in 1..Len(s) : ~IsSpace(s[i])}
    IN  IF keep = {} THEN <<>>
        ELSE SubSeq(s, CHOOSE i \in keep : \A j \in keep : i <= j,
                       CHOOSE i \in keep : \A j \in keep : j <= i)
\* str.startswith
StartsWith(s, p) == Len(s) >= Len(p) /\ SubSeq(s, 1, Len(p)) = p
\* p in s
Contains(s, p) ==
    \E i \in 1..(Len(s) - Len(p) + 1) : SubSeq(s, i, i + Len(p) - 1) = p

SELECT == <<"S", "E", "L", "E", "C", "T">>
\* dangerous_keywords = ["INSERT", "UPDATE", "DELETE", "DROP", "ALTER",
\*                       "CREATE", "TRUNCATE", "EXEC", "EXECUTE"]
dangerous_keywords ==
    << <<"I", "N", "S", "E", "R", "T">>,
       <<"U", "P", "D", "A", "T", "E">>,
       <<"D", "E", "L", "E", "T", "E">>,
       <<"D", "R", "O", "P">>,
       <<"A", "L", "T", "E", "R">>,
       <<"C", "R", "E", "A", "T", "E">>,
       <<"T", "R", "U", "N", "C", "A", "T", "E">>,
       <<"E", "X", "E", "C">>,
       <<"E", "X", "E", "C", "U", "T", "E">> >>

LastKeyword(query_upper) ==
    LET hits == {k \in 1..Len(dangerous_keywords) :
                    Contains(query_upper, dangerous_keywords[k])}
    IN  IF hits = {} THEN 0 ELSE CHOOSE k \in hits : \A j \in hits : k >= j
\* for keyword in dangerous_keywords: if keyword in query_upper: return ...
\* (index of the first keyword found, 0 when none is)
FirstKeyword(query_upper) ==
    LET hits == {k \in 1..Len(dangerous_keywords) :
                    Contains(query_upper, dangerous_keywords[k])}
    IN  IF hits = {} THEN 0 ELSE CHOOSE k \in hits : \A j \in hits : k <= j

(***************************************************************************)
(* Queries the agent may pass: concatenations of a few fragments.          *)
(***************************************************************************)
Fragments ==
    { <<"S", "E", "L", "E", "C", "T">>,
      <<"s", "e", "l", "e", "c", "t">>,
      <<" ">>,
      <<" ", "x">>,
      <<";">>,
      <<" ", "I", "N", "T", "O", " ", "y">>,
      <<"M", "E", "R", "G", "E", " ", "y">>,
      <<"D", "R", "O", "P", " ", "y">>,
      <<" ", "u", "p", "d", "a", "t", "e", "d", "_", "a", "t">>,
      <<"E", "X", "E", "C", "U", "T", "E", " ", "y">>,
      <<" ", "'", "i", "n", "s", "e", "r", "t", "'">> }

RECURSIVE Flatten(_)
Flatten(fs) == IF fs = <<>> THEN <<>> ELSE Head(fs) \o Flatten(Tail(fs))

Queries ==
    {Flatten(fs) : fs \in UNION {[1..n -> Fragments] : n \in 1..MaxFragments}}

(***************************************************************************)
(* What the database does with a batch it is given: the statements are     *)
(* separated by ";", and a statement changes data or schema when it starts *)
(* with a modifying verb or is a SELECT with an INTO clause.               *)
(***************************************************************************)
RECURSIVE Split(_, _)
Split(s, seps) ==
    IF s = <<>> THEN << <<>> >>
    ELSE LET rest == Split(Tail(s), seps)
         IN  IF Head(s) \in seps
             THEN << <<>> >> \o rest
             ELSE << <<Head(s)>> \o Head(rest) >> \o Tail(rest)

Words(stmt) == SelectSeq(Split(Upper(stmt), {" ", "\t", "\n", "\r"}), LAMBDA w : w # <<>>)

ModifyingVerbs ==
    {dangerous_keywords[k] : k \in 1..Len(dangerous_keywords)} \cup {<<"M", "E", "R", "G", "E">>}

StatementModifies(stmt) ==
    LET ws == Words(stmt)
    IN  /\ ws # <<>>
        /\ \/ Head(ws) \in ModifyingVerbs
           \/ Head(ws) = SELECT /\ \E i \in 1..Len(ws) : ws[i] = <<"I", "N", "T", "O">>

ModifiesDatabase(query) ==
    LET stmts == Split(query, {";"})
    IN  \E i \in 1..Len(stmts) : StatementModifies(stmts[i])

(***************************************************************************)
(* execute_sql.                                                            *)
(***************************************************************************)
PrefixError == "Only SELECT queries are allowed. Query must start with SELECT."
\* f"Query contains forbidden keyword: {keyword}. Only read-only SELECT
\* queries are allowed."
KeywordErrors ==
    << "Query contains forbidden keyword: INSERT. Only read-only SELECT queries are allowed.",
       "Query contains forbidden keyword: UPDATE. Only read-only SELECT queries are allowed.",
       "Query contains forbidden keyword: DELETE. Only read-only SELECT queries are allowed.",
       "Query contains forbidden keyword: DROP. Only read-only SELECT queries are allowed.",
       "Query contains forbidden keyword: ALTER. Only read-only SELECT queries are allowed.",
       "Query contains forbidden keyword: CREATE. Only read-only SELECT queries are allowed.",
       "Query contains forbidden keyword: TRUNCATE. Only read-only SELECT queries are allowed.",
       "Query contains forbidden keyword: EXEC. Only read-only SELECT queries are allowed.",
       "Query contains forbidden keyword: EXECUTE. Only read-only SELECT queries are allowed." >>
KeywordError(k) == KeywordErrors[k]
ServerError == "AZURE_SQL_SERVER environment variable is required"

Failure(err) ==
    [success |-> FALSE, error |-> err, columns |-> <<>>, rows |-> <<>>, row_count |-> 0]
Success(cols, rows) ==
    [success |-> TRUE, columns |-> cols, rows |-> rows, row_count |-> Len(rows),
     error |-> NoError]

\* the steps after the validation that may raise: _get_azure_sql_token,
\* aioodbc.connect, cursor.execute, cursor.fetchall
SqlSteps == {"token", "connect", "execute", "fetch"}
TryBlockAfterToken == {"connect", "execute", "fetch"}
\* the steps inside try: ... except Exception
TryBlock == {"token", "connect", "execute", "fetch"}
\* str(e) of the exception a step raises
StepError(step) ==
    CASE step = "token" -> "DefaultAzureCredential failed to retrieve a token"
      [] step = "connect" -> "Login timeout expired"
      [] step = "execute" -> "Invalid object name"
      [] OTHER -> "No results.  Previous SQL was not a query."

\* what the environment does when the query gets that far: the server
\* setting, and the step that raises, else the rows returned
SqlEnvs ==
    {[server |-> "", fail |-> "none", rows |-> 0]}
    \cup {[server |-> "srv", fail |-> f, rows |-> 0] : f \in SqlSteps}
    \cup {[server |-> "srv", fail |-> "none", rows |-> n] : n \in 0..MaxRows}

NoResult == [success |-> FALSE, error |-> "not called", columns |-> <<>>,
             rows |-> <<>>, row_count |-> 0]

SqlQuiet ==
    /\ sqlQuery = <<>>
    /\ sqlPc = "idle"
    /\ sqlResult = NoResult
    /\ sqlConnected = FALSE
    /\ sqlExecuted = FALSE

ExecuteSql(env) ==
    /\ sqlPc = "called"
    /\ LET query_upper == Upper(Strip(sqlQuery))
           k == FirstKeyword(query_upper)
           rejected == ~StartsWith(query_upper, SELECT) \/ k # 0
           reachesDb == ~rejected /\ env.server # ""
           \* an exception raised outside the try block leaves the function
           escapes == reachesDb /\ env.fail # "none" /\ env.fail \notin TryBlock
       IN  /\ sqlPc' = IF escapes THEN "raised" ELSE "returned"
           /\ sqlConnected' = (reachesDb /\ env.fail # "token")
           /\ sqlExecuted' = (reachesDb /\ env.fail \notin {"token", "connect"})
           /\ sqlResult' =
                IF ~StartsWith(query_upper, SELECT) THEN Failure(PrefixError)
                ELSE IF k # 0 THEN Failure(KeywordError(k))
                ELSE IF env.server = "" THEN Failure(ServerError)
                ELSE IF escapes THEN NoResult
                ELSE IF env.fail # "none" THEN Failure(StepError(env.fail))
                ELSE Success(<<"c1">>, [i \in 1..env.rows |-> [c1 |-> i]])
    /\ UNCHANGED sqlQuery
    /\ UNCHANGED <<wfVars, searchVars, thVars, parseVars>>

\* the agent calls the tool with some query
SqlInit ==
    /\ sqlQuery \in Queries
    /\ sqlPc = "called"
    /\ sqlResult = NoResult
    /\ sqlConnected = FALSE
    /\ sqlExecuted = FALSE

WfQuiet ==
    /\ clearsSharedState = FALSE
    /\ sharedState = NoThread
    /\ threadCount = InitialThreads
    /\ requests = 0
    /\ req = NoRequest
    /\ phase = "idle"
    /\ inbox = EmptyInboxes
    /\ raised = NoException
    /\ outputs = <<>>
    /\ events = <<>>
    /\ stream = "none"
    /\ foundry_thread_id = NoThread
    /\ output_received = FALSE
    /\ trace = <<>>
    /\ nlRanOn = NoThread
    /\ chatRanOn = NoThread
    /\ created = 0
    /\ handlerCalls = 0
    /\ agentRaised = FALSE
    /\ nlFailure = NoException
    /\ nlSent = <<>>
    /\ yielded = 0
    /\ threadOwner = InitialOwners

(***************************************************************************)
(* search_cached_queries.  Scores are in hundredths.                       *)
(***************************************************************************)
\* CONFIDENCE_THRESHOLD = float(os.getenv("QUERY_CONFIDENCE_THRESHOLD", "0.75"))
CONFIDENCE_THRESHOLD == 75
\* top=3
TopK == 3
\* @search.score values of the matches
ScoreValues == {50, 74, 75, 76, 90}
NoMatch == [id |-> 0, score |-> 0]

\* the service returns at most `top` matches, best score first
SearchHits ==
    {h \in UNION {[1..n -> ScoreValues] : n \in 0..TopK} :
        \A i \in 1..(Len(h) - 1) : h[i] >= h[i + 1]}
Matches(h) == [i \in 1..Len(h) |-> [id |-> i, score |-> h[i]]]

\* "ok", or the step that raises: __aenter__ without AZURE_SEARCH_ENDPOINT
\* (ValueError), hybrid_search without embeddings (RuntimeError), the search
\* call itself
SearchEnvs == {"ok", "no_endpoint", "no_embeddings", "search_error"}
SearchErrorText(env) ==
    CASE env = "no_endpoint" -> "AZURE_SEARCH_ENDPOINT environment variable is required"
      [] env = "no_embeddings" -> "Failed to generate embeddings"
      [] OTHER -> "search service error"

SearchTryBlockAfterEnter == {"no_embeddings", "search_error"}
\* the failures raised inside try: ... except Exception (the async with
\* statement and the hybrid_search call are both inside it)
SearchTryBlock == {"no_endpoint", "no_embeddings", "search_error"}

\* the dictionary of the except clause
SearchFailure(text) ==
    [has_high_confidence_match |-> FALSE, best_match |-> NoMatch,
     all_matches |-> <<>>, error |-> text]

\* best_match["score"] >= CONFIDENCE_THRESHOLD
HasHighConfidence(best_match) == best_match.score >= CONFIDENCE_THRESHOLD

NoSearchResult ==
    [has_high_confidence_match |-> FALSE, best_match |-> NoMatch,
     all_matches |-> <<>>, error |-> "not called"]

SearchQuiet ==
    /\ searchHits = <<>>
    /\ searchEnv = "ok"
    /\ searchPc = "idle"
    /\ searchResult = NoSearchResult

SearchCachedQueries ==
    /\ searchPc = "called"
    /\ searchPc' = IF searchEnv # "ok" /\ searchEnv \notin SearchTryBlock
                    THEN "raised" ELSE "returned"
    /\ LET results == Matches(searchHits)
       IN  searchResult' =
             IF searchEnv # "ok"
             THEN IF searchEnv \in SearchTryBlock
                  THEN SearchFailure(SearchErrorText(searchEnv))
                  ELSE NoSearchResult
             ELSE IF results = <<>>
             THEN [has_high_confidence_match |-> FALSE, best_match |-> NoMatch,
                   all_matches |-> <<>>, error |-> NoError]
             ELSE [has_high_confidence_match |-> HasHighConfidence(results[1]),
                   best_match |-> IF HasHighConfidence(results[1])
                                  THEN results[1] ELSE NoMatch,
                   all_matches |-> results, error |-> NoError]
    /\ UNCHANGED <<searchHits, searchEnv>>
    /\ UNCHANGED <<wfVars, sqlVars, thVars, parseVars>>

(***************************************************************************)
(* The thread endpoints and their ownership dependency.                    *)
(***************************************************************************)
\* thread-endpoint requests, which may overlap
MaxThreadRequests == 2

\* threads on the service
ThreadIds == {1, 2}
Endpoints == {"list_threads", "get_thread", "update_thread", "delete_thread",
              "get_thread_messages"}
\* no title in the metadata (titles are sequences of characters)
NoTitle == <<>>

NoThreadRequest ==
    [endpoint |-> "none", caller |-> NoUser, tid |-> 0, stage |-> "new",
     status |-> 0, checked |-> FALSE, ownerAtCheck |-> NoUser, title |-> NoTitle,
     acted |-> FALSE, ownerAtAct |-> NoUser, listed |-> {},
     out_title |-> NoTitle, out_messages |-> <<>>]

ThQuiet ==
    /\ thStore = [t \in ThreadIds |-> [exists |-> TRUE, user_id |-> NoUser, title |-> NoTitle]]
    /\ thReqs = [i \in 1..MaxThreadRequests |-> NoThreadRequest]
    /\ thStarted = 0
    /\ thMessages = [t \in ThreadIds |-> <<>>]
    /\ thListEnv = "ok"

(***************************************************************************)
(* Messages of a thread.  A message has a role and a list of content       *)
(* parts; a part is a text (a sequence of characters) or something else.   *)
(***************************************************************************)
\* messages per thread
MaxMessages == 2
\* text_value[:50]
TitleLimit == 50

NonText == [is_text |-> FALSE, value |-> <<>>]
Text(chars) == [is_text |-> TRUE, value |-> chars]
Ellipsis == <<".", ".", ".">>
TextAtLimit == [i \in 1..TitleLimit |-> "x"]
TextOverLimit == [i \in 1..(TitleLimit + 1) |-> "y"]

\* msg.content of the messages on the service
Contents ==
    { <<>>,
      <<NonText>>,
      <<Text(<<" ">>)>>,
      <<Text(<<"h", "i">>)>>,
      <<Text(<<"h">>), Text(<<"i">>)>>,
      <<NonText, Text(<<"y", "o">>)>>,
      <<Text(TextAtLimit)>>,
      <<Text(TextOverLimit)>> }
Roles == {"user", "assistant"}

\* the listings messages.list can yield for a thread: newest first, so the
\* message at position i of n was the (n - i + 1)-th created
Listings ==
    UNION {{[i \in 1..n |-> [id |-> n - i + 1, role |-> f[i].role, content |-> f[i].content]] :
                f \in [1..n -> [role : Roles, content : Contents]]} : n \in 0..MaxMessages}

\* exception classes messages.list may raise
ListErrors == {"ValueError", "HttpResponseError"}
\* except (ValueError, RuntimeError, OSError) in get_thread_title
TitleCaught == {"ValueError", "RuntimeError", "OSError"}

\* what messages.list(thread_id) does: the listing, or the class it raises
ListOutcome(store, tid) ==
    IF ~store[tid].exists THEN "HttpResponseError" ELSE thListEnv

TextParts(content) == SelectSeq(content, LAMBDA part : part.is_text /\ part.value # <<>>)

\* extract_message_text: the text parts, concatenated
ExtractMessageText(msg) ==
    Flatten([i \in 1..Len(TextParts(msg.content)) |-> TextParts(msg.content)[i].value])

\* text_value[:50] + "..." if len(text_value) > 50 else text_value
TruncateTitle(text_value) ==
    IF Len(text_value) > TitleLimit
    THEN SubSeq(text_value, 1, TitleLimit) \o Ellipsis
    ELSE text_value

NewChat == <<"N", "e", "w", " ", "C", "h", "a", "t">>

\* the loop of get_thread_title over the listing: the first text part of
\* the first listed user message that has one
RECURSIVE TitleFromMessages(_)
TitleFromMessages(listing) ==
    IF listing = <<>> THEN NewChat
    ELSE LET msg == Head(listing)
         IN  IF msg.role = "user" /\ TextParts(msg.content) # <<>>
             THEN TruncateTitle(TextParts(msg.content)[1].value)
             ELSE TitleFromMessages(Tail(listing))

\* get_thread_title: [raised |-> class or "none", title |-> the title]
GetThreadTitle(store, tid, meta_title) ==
    IF meta_title # NoTitle THEN [raised |-> "none", title |-> meta_title]
    ELSE LET out == ListOutcome(store, tid)
         IN  IF out = "ok"
             THEN [raised |-> "none", title |-> TitleFromMessages(thMessages[tid])]
             ELSE IF out \in TitleCaught
             THEN [raised |-> "none", title |-> NewChat]
             ELSE [raised |-> out, title |-> NoTitle]

MessageData(msg) == [id |-> msg.id, role |-> msg.role, content |-> ExtractMessageText(msg)]

\* the loop of get_thread_messages: skip blank content and (role, content)
\* pairs already seen
RECURSIVE CollectMessages(_, _)
CollectMessages(listing, seen_content) ==
    IF listing = <<>> THEN <<>>
    ELSE LET msg == Head(listing)
             content == ExtractMessageText(msg)
             content_key == <<msg.role, content>>
         IN  IF Strip(content) = <<>> \/ content_key \in seen_content
             THEN CollectMessages(Tail(listing), seen_content)
             ELSE <<MessageData(msg)>>
                    \o CollectMessages(Tail(listing), seen_content \cup {content_key})

\* messages.reverse()
Reverse(s) == [i \in 1..Len(s) |-> s[Len(s) + 1 - i]]

\* a request reaches the router
ThreadRequest(ep, caller, tid) ==
    /\ thStarted < MaxThreadRequests
    /\ thStarted' = thStarted + 1
    /\ thReqs' = [thReqs EXCEPT ![thStarted + 1] =
                    [NoThreadRequest EXCEPT !.endpoint = ep, !.caller = caller,
                                            !.tid = tid, !.stage = "deps"]]
    /\ UNCHANGED <<thStore, thMessages, thListEnv>>
    /\ UNCHANGED <<wfVars, sqlVars, searchVars, parseVars>>

\* get_user_id: 401 when request.state holds no user_id (0: passed)
GetUserId(caller) == IF caller = NoUser THEN 401 ELSE 0

VerifyThreadOwnershipAnyUser(store, tid, user_id) == IF ~store[tid].exists THEN 500 ELSE 0
\* verify_thread_ownership: 500 when threads.get raises, 403 when the
\* thread's user_id metadata is not the caller's (0: passed)
VerifyThreadOwnership(store, tid, user_id) ==
    IF ~store[tid].exists THEN 500
    ELSE IF store[tid].user_id # user_id THEN 403
    ELSE 0

\* Depends(get_user_id), then Depends(verify_thread_ownership) for the
\* endpoints that take a thread_id
ResolveDependencies(i) ==
    /\ thReqs[i].stage = "deps"
    /\ LET r == thReqs[i]
           auth == GetUserId(r.caller)
           own == IF r.endpoint = "list_threads" THEN 0
                  ELSE VerifyThreadOwnership(thStore, r.tid, r.caller)
           checks == auth = 0 /\ r.endpoint # "list_threads" /\ thStore[r.tid].exists
       IN  thReqs' = [thReqs EXCEPT ![i] =
                [r EXCEPT !.stage = IF auth = 0 /\ own = 0 THEN "handler" ELSE "done",
                          !.status = IF auth # 0 THEN auth ELSE own,
                          !.checked = checks,
                          !.ownerAtCheck = IF checks THEN thStore[r.tid].user_id ELSE NoUser,
                          !.title = IF checks THEN thStore[r.tid].title ELSE NoTitle]]
    /\ UNCHANGED <<thStore, thStarted, thMessages, thListEnv>>
    /\ UNCHANGED <<wfVars, sqlVars, searchVars, parseVars>>

\* if metadata.get("user_id") == user_id
ListFilter(store, user_id) ==
    {t \in ThreadIds : store[t].exists /\ store[t].user_id = user_id}

ListThreads(i) ==
    /\ thReqs[i].stage = "handler"
    /\ thReqs[i].endpoint = "list_threads"
    /\ LET r == thReqs[i]
           mine == ListFilter(thStore, r.caller)
           \* get_thread_title for every thread that passes the filter; an
           \* exception it lets through ends the request with 500
           ok == \A t \in mine : GetThreadTitle(thStore, t, thStore[t].title).raised = "none"
       IN  thReqs' = [thReqs EXCEPT ![i] =
                [r EXCEPT !.stage = "done",
                          !.status = IF ok THEN 200 ELSE 500,
                          !.listed = IF ok THEN mine ELSE {}]]
    /\ UNCHANGED <<thStore, thStarted, thMessages, thListEnv>>
    /\ UNCHANGED <<wfVars, sqlVars, searchVars, parseVars>>

\* get_thread: the title comes from the verified metadata, else from the
\* thread's messages
GetThread(i) ==
    /\ thReqs[i].stage = "handler"
    /\ thReqs[i].endpoint = "get_thread"
    /\ LET r == thReqs[i]
           got == GetThreadTitle(thStore, r.tid, r.title)
           ok == got.raised = "none"
       IN  thReqs' = [thReqs EXCEPT ![i] =
                [r EXCEPT !.stage = "done",
                          !.status = IF ok THEN 200 ELSE 500,
                          !.out_title = got.title,
                          !.acted = ok,
                          !.ownerAtAct = IF ok THEN thStore[r.tid].user_id ELSE NoUser]]
    /\ UNCHANGED <<thStore, thStarted, thMessages, thListEnv>>
    /\ UNCHANGED <<wfVars, sqlVars, searchVars, parseVars>>

\* update_thread: writes the verified metadata with the new title
UpdateThread(i, title) ==
    /\ thReqs[i].stage = "handler"
    /\ thReqs[i].endpoint = "update_thread"
    /\ LET r == thReqs[i]
           ok == thStore[r.tid].exists
       IN  /\ thReqs' = [thReqs EXCEPT ![i] =
                [r EXCEPT !.stage = "done",
                          !.status = IF ok THEN 200 ELSE 500,
                          !.acted = ok,
                          !.ownerAtAct = IF ok THEN thStore[r.tid].user_id ELSE NoUser]]
           /\ thStore' = IF ok
                         THEN [thStore EXCEPT ![r.tid] =
                                 [@ EXCEPT !.user_id = r.ownerAtCheck, !.title = title]]
                         ELSE thStore
    /\ UNCHANGED <<thStarted, thMessages, thListEnv>>
    /\ UNCHANGED <<wfVars, sqlVars, searchVars, parseVars>>

DeleteThread(i) ==
    /\ thReqs[i].stage = "handler"
    /\ thReqs[i].endpoint = "delete_thread"
    /\ LET r == thReqs[i]
           ok == thStore[r.tid].exists
       IN  /\ thReqs' = [thReqs EXCEPT ![i] =
                [r EXCEPT !.stage = "done",
                          !.status = IF ok THEN 200 ELSE 500,
                          !.acted = ok,
                          !.ownerAtAct = IF ok THEN thStore[r.tid].user_id ELSE NoUser]]
           /\ thStore' = IF ok THEN [thStore EXCEPT ![r.tid].exists = FALSE]
                         ELSE thStore
    /\ UNCHANGED <<thStarted, thMessages, thListEnv>>
    /\ UNCHANGED <<wfVars, sqlVars, searchVars, parseVars>>

GetThreadMessages(i) ==
    /\ thReqs[i].stage = "handler"
    /\ thReqs[i].endpoint = "get_thread_messages"
    /\ LET r == thReqs[i]
           ok == ListOutcome(thStore, r.tid) = "ok"
       IN  thReqs' = [thReqs EXCEPT ![i] =
                [r EXCEPT !.stage = "done",
                          !.status = IF ok THEN 200 ELSE 500,
                          !.out_messages =
                              IF ok THEN Reverse(CollectMessages(thMessages[r.tid], {}))
                              ELSE <<>>,
                          !.acted = ok,
                          !.ownerAtAct = IF ok THEN thStore[r.tid].user_id ELSE NoUser]]
    /\ UNCHANGED <<thStore, thStarted, thMessages, thListEnv>>
    /\ UNCHANGED <<wfVars, sqlVars, searchVars, parseVars>>

(***************************************************************************)
(* NL2SQLAgentExecutor._parse_agent_response and the response model.       *)
(***************************************************************************)
\* messages in the agent's response
MaxAgentMessages == 3

\* NL2SQLResponse with its field defaults
DefaultResponse ==
    [sql_query |-> "", sql_response |-> <<>>, columns |-> <<>>, row_count |-> 0,
     confidence_score |-> 0, used_cached_query |-> FALSE, error |-> NoError]

\* best_match.get('query', '')
CachedQuery == "SELECT cached"
CachedMatch(score) == [id |-> 1, score |-> score, query |-> CachedQuery]

\* results of the search tool as the agent's messages carry them; the
\* score of a match is whatever the search service reports
ToolSearchResults ==
    { SearchFailure("search service error"),
      [has_high_confidence_match |-> FALSE, best_match |-> NoMatch, all_matches |-> <<>>],
      [has_high_confidence_match |-> FALSE, best_match |-> NoMatch,
       all_matches |-> <<CachedMatch(50)>>],
      [has_high_confidence_match |-> TRUE, best_match |-> CachedMatch(90),
       all_matches |-> <<CachedMatch(90)>>],
      [has_high_confidence_match |-> TRUE, best_match |-> CachedMatch(120),
       all_matches |-> <<CachedMatch(120)>>] }

\* results of execute_sql
ToolSqlResults ==
    { Failure(StepError("execute")),
      Success(<<"c1">>, <<[c1 |-> 1]>>),
      Success(<<"c1">>, <<[c1 |-> 1], [c1 |-> 2]>>) }

\* the messages of a run: tool results (a dict, or text that is not JSON)
\* and the assistant's execute_sql calls
AgentMessageValues ==
    {[role |-> "tool", is_dict |-> TRUE, result |-> r, query |-> ""] :
        r \in ToolSearchResults \cup ToolSqlResults}
    \cup {[role |-> "tool", is_dict |-> FALSE, result |-> [text |-> "not json"], query |-> ""]}
    \cup {[role |-> "assistant", is_dict |-> FALSE, result |-> [text |-> ""], query |-> q] :
            q \in {"SELECT 1", "SELECT 2"}}

AgentMessages == UNION {[1..n -> AgentMessageValues] : n \in 0..MaxAgentMessages}

\* result.get('success', default)
GetSuccess(result, default) ==
    IF "success" \in DOMAIN result THEN result.success ELSE default

IsSqlResult(msg) == msg.role = "tool" /\ msg.is_dict /\ "rows" \in DOMAIN msg.result

\* the body of the loop over response.messages, for one message
ParseMessage(acc, msg) ==
    IF msg.role = "tool"
    THEN IF ~msg.is_dict THEN acc
         ELSE LET result == msg.result
                  a1 == IF "rows" \in DOMAIN result /\ GetSuccess(result, FALSE)
                        THEN [acc EXCEPT !.sql_response = result.rows,
                                         !.columns = result.columns,
                                         !.row_count = result.row_count]
                        ELSE acc
                  a2 == IF "has_high_confidence_match" \in DOMAIN result
                        THEN LET used == result.has_high_confidence_match
                                 has_best == result.best_match # NoMatch
                             IN  [a1 EXCEPT
                                    !.used_cached_query = used,
                                    !.confidence_score =
                                        IF has_best THEN result.best_match.score ELSE @,
                                    !.sql_query =
                                        IF has_best /\ used THEN result.best_match.query ELSE @]
                        ELSE a1
              IN  [a2 EXCEPT !.error =
                        IF ~GetSuccess(result, TRUE) /\ "error" \in DOMAIN result
                        THEN result.error ELSE a2.error]
    ELSE IF msg.query # "" THEN [acc EXCEPT !.sql_query = msg.query] ELSE acc

RECURSIVE ParseMessages(_, _)
ParseMessages(acc, messages) ==
    IF messages = <<>> THEN acc
    ELSE ParseMessages(ParseMessage(acc, Head(messages)), Tail(messages))

\* the field constraints of NL2SQLResponse (ge=0.0, le=1.0; ge=0)
ValidResponse(r) ==
    r.confidence_score >= 0 /\ r.confidence_score <= 100 /\ r.row_count >= 0

ValidationErrorText == "1 validation error for NL2SQLResponse"

\* _parse_agent_response inside the try block of handle_question: the
\* parsed response, or the error response when the model rejects the values
ParseAgentResponse(messages) ==
    LET r == ParseMessages(DefaultResponse, messages)
    IN  IF ValidResponse(r) THEN r
        ELSE [DefaultResponse EXCEPT !.error = ValidationErrorText]

ParseQuiet ==
    /\ agMessages = <<>>
    /\ agPc = "idle"
    /\ agResponse = DefaultResponse

\* lines 137-154 of handle_question: parse the run's messages, send
ParseAndSend ==
    /\ agPc = "ran"
    /\ agPc' = "sent"
    /\ agResponse' = ParseAgentResponse(agMessages)
    /\ UNCHANGED agMessages
    /\ UNCHANGED <<wfVars, sqlVars, searchVars, thVars>>

InitParse ==
    /\ WfQuiet
    /\ SqlQuiet
    /\ SearchQuiet
    /\ ThQuiet
    /\ agMessages \in AgentMessages
    /\ agPc = "ran"
    /\ agResponse = DefaultResponse

NextParse == ParseAndSend
SpecParse == InitParse /\ [][NextParse]_vars

(***************************************************************************)
(* The workflow specification.                                             *)
(***************************************************************************)
Init == WfInit /\ SqlQuiet /\ SearchQuiet /\ ThQuiet /\ ParseQuiet

Next ==
    \/ \E tid \in 0..threadCount, gen \in Generators, user \in Users \cup {NoUser} :
          ChatStream(tid, gen, user)
    \/ HandleUserMessages
    \/ \E o \in NlOutcomes : HandleQuestion(o)
    \/ \E o \in ChatOutcomes : HandleNl2sqlResponse(o)
    \/ StreamOutput
    \/ StreamDone
    \/ StreamError

Spec == Init /\ [][Next]_vars

(***************************************************************************)
(* The tool specifications: one call of the tool on any input.             *)
(***************************************************************************)
InitSql == WfQuiet /\ SqlInit /\ SearchQuiet /\ ThQuiet /\ ParseQuiet
NextSql == \E env \in SqlEnvs : ExecuteSql(env)
SpecSql == InitSql /\ [][NextSql]_vars

InitSearch ==
    /\ ParseQuiet
    /\ WfQuiet
    /\ SqlQuiet
    /\ ThQuiet
    /\ searchHits \in SearchHits
    /\ searchEnv \in SearchEnvs
    /\ searchPc = "called"
    /\ searchResult = NoSearchResult
NextSearch == SearchCachedQueries
SpecSearch == InitSearch /\ [][NextSearch]_vars

(***************************************************************************)
(* The thread-endpoint specification: threads of several owners exist,     *)
(* requests of any caller arrive and overlap.                              *)
(***************************************************************************)
InitThreads ==
    /\ ParseQuiet
    /\ WfQuiet
    /\ SqlQuiet
    /\ SearchQuiet
    /\ thStore \in [ThreadIds -> [exists : {TRUE}, user_id : Users \cup {NoUser},
                                  title : {NoTitle}]]
    /\ thReqs = [i \in 1..MaxThreadRequests |-> NoThreadRequest]
    /\ thStarted = 0
    /\ thMessages = [t \in ThreadIds |-> <<>>]
    /\ thListEnv = "ok"

NextThreads ==
    \/ \E ep \in Endpoints, caller \in Users \cup {NoUser}, tid \in ThreadIds :
          ThreadRequest(ep, caller, tid)
    \/ \E i \in 1..MaxThreadRequests : ResolveDependencies(i)
    \/ \E i \in 1..MaxThreadRequests : ListThreads(i)
    \/ \E i \in 1..MaxThreadRequests : GetThread(i)
    \/ \E i \in 1..MaxThreadRequests : UpdateThread(i, <<"n", "e", "w">>)
    \/ \E i \in 1..MaxThreadRequests : DeleteThread(i)
    \/ \E i \in 1..MaxThreadRequests : GetThreadMessages(i)

SpecThreads == InitThreads /\ [][NextThreads]_vars

(***************************************************************************)
(* The message specification: one request that reads the messages or the   *)
(* title of a thread of the caller, for any messages on the thread.        *)
(***************************************************************************)
InitMessages ==
    /\ ParseQuiet
    /\ WfQuiet
    /\ SqlQuiet
    /\ SearchQuiet
    /\ \E t \in {NoTitle, <<"T">>} :
          thStore = [x \in ThreadIds |-> [exists |-> TRUE, user_id |-> "alice", title |-> t]]
    /\ thReqs = [i \in 1..MaxThreadRequests |-> NoThreadRequest]
    /\ thStarted = 0
    /\ \E l \in Listings : thMessages = [x \in ThreadIds |-> l]
    /\ thListEnv \in {"ok"} \cup ListErrors

NextMessages ==
    \/ /\ thStarted = 0
       /\ \E ep \in {"list_threads", "get_thread", "get_thread_messages"} :
             ThreadRequest(ep, "alice", 1)
    \/ \E i \in 1..MaxThreadRequests : ResolveDependencies(i)
    \/ \E i \in 1..MaxThreadRequests : ListThreads(i)
    \/ \E i \in 1..MaxThreadRequests : GetThread(i)
    \/ \E i \in 1..MaxThreadRequests : GetThreadMessages(i)

SpecMessages == InitMessages /\ [][NextMessages]_vars

(***************************************************************************)
(* Properties of the workflow run and of the SSE streams.                  *)
(***************************************************************************)
IsPrefix(s, t) == Len(s) <= Len(t) /\ SubSeq(t, 1, Len(s)) = s
Count(s, x) == Cardinality({i \in 1..Len(s) : s[i] = x})
Last(s) == s[Len(s)]
RunOrder == <<"forward", "nl_handled", "nl_sent", "render", "yield">>
DoneSent == stream = "done" /\ Last(events).kind = "done"

\* C1: the steps of a run happen in the order forward, NL2SQL handles and
\* answers, chat renders and yields; in particular no output is yielded
\* before the NL2SQL executor has handled the question of that run.
C1_RunOrder ==
    /\ IsPrefix(trace, RunOrder)
    /\ yielded > 0 => Count(trace, "nl_handled") > 0 /\ Len(nlSent) = 1
    /\ (\E i \in 1..Len(events) : ~events[i].done) => yielded > 0

C1_Witness == trace = RunOrder /\ yielded = 1 /\ Len(events) > 0

\* C4: whenever a step of handle_question raises, the handler still sends
\* exactly one NL2SQLResponse with sql_query empty and error = str(e), and
\* the error does not leave the handler.
C4_ErrorsCaught ==
    nlFailure # NoException =>
        /\ raised # nlFailure
        /\ nlSent = <<[sql_query |-> "", error |-> Str(nlFailure)]>>

\* C5: within one run both executors converse on the same thread: an
\* executor that ran its agent ran it on the thread whose ID is stored under
\* the shared-state key, and once the key holds an ID no executor step
\* changes it.
C5_SameThread ==
    /\ [](/\ nlRanOn # NoThread => nlRanOn = sharedState
          /\ chatRanOn # NoThread => chatRanOn = sharedState
          /\ (nlRanOn # NoThread /\ chatRanOn # NoThread) => nlRanOn = chatRanOn)
    /\ [][(sharedState # NoThread /\ requests' = requests)
            => sharedState' = sharedState]_vars

C5_Witness ==
    /\ created = 1
    /\ nlRanOn # NoThread
    /\ chatRanOn = nlRanOn
    /\ sharedState = nlRanOn

\* C6: a request that names thread T runs both agents on T, creates no
\* thread, and its done event returns T.
C6_ContinuesThread ==
    (DoneSent /\ req.thread_id # NoThread) =>
        /\ nlRanOn \in {NoThread, req.thread_id}
        /\ chatRanOn = req.thread_id
        /\ created = 0
        /\ Last(events).thread_id = req.thread_id

\* C7: for a request without thread_id whose run yields an output, the done
\* event carries a thread ID, and it is the ID of the thread the executors
\* ran on.
C7_DoneThreadId ==
    (DoneSent /\ req.thread_id = NoThread /\ yielded > 0) =>
        /\ Last(events).thread_id # NoThread
        /\ Last(events).thread_id = chatRanOn
        /\ nlRanOn # NoThread => Last(events).thread_id = nlRanOn

C7_Witness ==
    /\ DoneSent
    /\ req.thread_id = NoThread
    /\ yielded = 1
    /\ created = 1
    /\ Last(events).thread_id = threadCount

\* C9: every stream is zero or more done=false events, then exactly one
\* done=true event, and nothing after it, whatever the outcome of the run.
C9_OneDoneLast ==
    /\ \A i \in 1..Len(events) : events[i].done => i = Len(events)
    /\ stream \in {"done", "aborted"} => events # <<>> /\ Last(events).done
    /\ stream = "open" => \A i \in 1..Len(events) : ~events[i].done

\* C10: a run is a single pass chat -> NL2SQL -> chat: at most three
\* handler invocations, at most one question handled and one output
\* yielded, and when no agent call raised the run ends with exactly one of
\* each and nothing left to deliver.
C10_SinglePass ==
    /\ handlerCalls <= 3
    /\ Count(trace, "nl_handled") <= 1
    /\ yielded <= 1
    /\ (stream \in {"done", "aborted"} /\ ~agentRaised) =>
          /\ stream = "done"
          /\ Count(trace, "nl_handled") = 1
          /\ yielded = 1
          /\ handlerCalls = 3
          /\ inbox = EmptyInboxes

C10_Witness ==
    /\ DoneSent
    /\ ~agentRaised
    /\ handlerCalls = 3
    /\ yielded = 1
    /\ requests = MaxRequests

(***************************************************************************)
(* Properties of the tools.                                                *)
(***************************************************************************)
\* C2: a query that reaches cursor.execute does not change data or schema,
\* and a query that does is rejected before a connection is opened.
C2_ReadOnly ==
    sqlPc = "returned" =>
        /\ sqlExecuted => ~ModifiesDatabase(sqlQuery)
        /\ ModifiesDatabase(sqlQuery) => ~sqlConnected

\* C3: has_high_confidence_match is true exactly when one of the matches
\* the search returned scores above the threshold.
C3_AboveThreshold ==
    searchPc = "returned" =>
        (searchResult.has_high_confidence_match
            <=> /\ searchEnv = "ok"
                /\ \E i \in 1..Len(searchHits) : searchHits[i] > CONFIDENCE_THRESHOLD)

\* C11: execute_sql never raises: every call returns a dictionary with the
\* keys success, columns, rows, row_count and error; a failure has empty
\* columns and rows, row_count 0 and an error text; a success has no error
\* and row_count equal to the number of rows.
C11_NeverRaises ==
    /\ sqlPc # "raised"
    /\ sqlPc = "returned" =>
        /\ DOMAIN sqlResult = {"success", "columns", "rows", "row_count", "error"}
        /\ ~sqlResult.success =>
              /\ sqlResult.columns = <<>>
              /\ sqlResult.rows = <<>>
              /\ sqlResult.row_count = 0
              /\ sqlResult.error \notin {NoError, "not called"}
        /\ sqlResult.success =>
              /\ sqlResult.error = NoError
              /\ sqlResult.row_count = Len(sqlResult.rows)

C11_Witness ==
    /\ sqlPc = "returned"
    /\ sqlExecuted
    /\ ~sqlResult.success
    /\ sqlResult.error = StepError("fetch")

\* C12: search_cached_queries never raises: when the search fails (endpoint
\* not configured, no embeddings, search service error) it returns
\* has_high_confidence_match false, no best_match, no matches and the text
\* of the exception as error.
C12_SearchNeverRaises ==
    /\ searchPc # "raised"
    /\ (searchPc = "returned" /\ searchEnv # "ok") =>
          /\ searchResult.has_high_confidence_match = FALSE
          /\ searchResult.best_match = NoMatch
          /\ searchResult.all_matches = <<>>
          /\ searchResult.error = SearchErrorText(searchEnv)
          /\ searchResult.error \notin {NoError, "not called"}

C12_Witness ==
    /\ searchPc = "returned"
    /\ searchEnv = "no_endpoint"
    /\ searchHits # <<>>
    /\ searchResult.error = "AZURE_SEARCH_ENDPOINT environment variable is required"

\* C13: whenever the search returned matches, best_match is the first of
\* them, and best_match is absent only when no match was returned.
C13_BestMatchIsFirst ==
    (searchPc = "returned" /\ searchEnv = "ok") =>
        /\ searchResult.all_matches # <<>> =>
              searchResult.best_match = searchResult.all_matches[1]
        /\ searchResult.best_match = NoMatch => searchResult.all_matches = <<>>

\* C19: a query whose trimmed, upper-cased text does not start with SELECT
\* or contains one of the nine keywords anywhere is rejected without a
\* connection; the prefix check comes first, and a keyword rejection names
\* the first keyword of the list that occurs in the query.
C19_RejectsBeforeConnecting ==
    sqlPc \in {"returned", "raised"} =>
        LET u == Upper(Strip(sqlQuery))
            prefix == StartsWith(u, SELECT)
            found == {k \in 1..Len(dangerous_keywords) : Contains(u, dangerous_keywords[k])}
        IN  (~prefix \/ found # {}) =>
              /\ sqlPc = "returned"
              /\ ~sqlConnected
              /\ ~sqlExecuted
              /\ ~sqlResult.success
              /\ ~prefix => sqlResult.error = PrefixError
              /\ prefix => \E k \in found :
                              /\ \A j \in found : k <= j
                              /\ sqlResult.error = KeywordErrors[k]

\* a query with DROP and, later in the text, 'insert' inside a literal:
\* the rejection names INSERT, the first of the two in the list
C19_Witness ==
    /\ sqlPc = "returned"
    /\ Contains(sqlQuery, <<"D", "R", "O", "P">>)
    /\ sqlResult.error = KeywordErrors[1]
    /\ ~sqlConnected

(***************************************************************************)
(* Properties of the thread endpoints.                                     *)
(***************************************************************************)
\* C8: a thread endpoint reads, modifies or deletes a thread only when the
\* thread's user_id metadata is the authenticated caller's; an
\* unauthenticated request ends 401 and a request for another user's thread
\* ends 403, both before anything is issued; list_threads returns only the
\* caller's threads.
C8_OwnThreadsOnly ==
    \A i \in 1..MaxThreadRequests :
        LET r == thReqs[i]
        IN  /\ r.acted => r.caller # NoUser /\ r.ownerAtAct = r.caller
            /\ (r.stage \in {"handler", "done"} /\ r.caller = NoUser) =>
                    r.stage = "done" /\ r.status = 401 /\ ~r.acted /\ r.listed = {}
            /\ (r.checked /\ r.ownerAtCheck # r.caller) =>
                    r.stage = "done" /\ r.status = 403 /\ ~r.acted
            /\ \A t \in r.listed : thStore[t].user_id = r.caller

C8_Witness ==
    \E i, j \in 1..MaxThreadRequests :
        /\ thReqs[i].status = 403
        /\ thReqs[i].endpoint = "delete_thread"
        /\ thReqs[j].acted
        /\ thReqs[j].endpoint = "delete_thread"
        /\ thReqs[j].tid = thReqs[i].tid

(***************************************************************************)
(* Properties of the messages and the title of a thread.                   *)
(***************************************************************************)
HasText(msg) == \E k \in 1..Len(msg.content) : msg.content[k].is_text
NonBlankText(msg) == Strip(ExtractMessageText(msg)) # <<>>

\* C14: get_thread_messages returns every message of the thread that has
\* text, oldest first.
C14_AllMessagesOldestFirst ==
    \A i \in 1..MaxThreadRequests :
        LET r == thReqs[i]
            out == r.out_messages
        IN  (r.endpoint = "get_thread_messages" /\ r.stage = "done" /\ r.status = 200) =>
              /\ \A k \in 1..Len(thMessages[r.tid]) :
                    NonBlankText(thMessages[r.tid][k]) =>
                        \E j \in 1..Len(out) : out[j].id = thMessages[r.tid][k].id
              /\ \A j, k \in 1..Len(out) : j < k => out[j].id < out[k].id

\* C15: get_thread_title returns the metadata title when one is set; else
\* the text of the oldest user message that has text, cut to 50 characters
\* plus "..." when longer; else "New Chat", also when the listing fails.
C15_TitleOfThread ==
    \A i \in 1..MaxThreadRequests :
        LET r == thReqs[i]
            l == thMessages[r.tid]
            users == {k \in 1..Len(l) : l[k].role = "user" /\ HasText(l[k])}
            first == CHOOSE k \in users : \A j \in users : l[k].id <= l[j].id
            text == TextParts(l[first].content)[1].value
        IN  (r.endpoint = "get_thread" /\ r.stage = "done") =>
              /\ r.status = 200
              /\ r.out_title =
                    IF r.title # NoTitle THEN r.title
                    ELSE IF thListEnv # "ok" \/ users = {} THEN NewChat
                    ELSE IF Len(text) > 50 THEN SubSeq(text, 1, 50) \o <<".", ".", ".">>
                    ELSE text

(***************************************************************************)
(* Properties of the NL2SQL response.                                      *)
(***************************************************************************)
\* C16: when the last execute_sql result among the agent's messages is a
\* success, the response sent has no error and carries the rows, columns
\* and row count of that result.
C16_ReflectsLastResult ==
    agPc = "sent" =>
        LET sqls == {k \in 1..Len(agMessages) : IsSqlResult(agMessages[k])}
            last == CHOOSE k \in sqls : \A j \in sqls : j <= k
        IN  (sqls # {} /\ agMessages[last].result.success) =>
              /\ agResponse.error = NoError
              /\ agResponse.sql_response = agMessages[last].result.rows
              /\ agResponse.columns = agMessages[last].result.columns
              /\ agResponse.row_count = agMessages[last].result.row_count

(***************************************************************************)
(* Properties of the chat endpoints across requests.                       *)
(***************************************************************************)
\* threads the service created during the current run
CreatedInRun == (threadCount - created + 1)..threadCount

====
